---------------------------- MODULE Spec2Model ----------------------------
(***************************************************************************)
(* Model of solr/mc_solr/solr.py: installation of the Solr distribution    *)
(* under a lock file shared by independent orchestrator processes, the     *)
(* start of a Solr instance (__run_solr) with its preconditions, the       *)
(* instance layout, the legacy shard guard, the supervision of the child   *)
(* process with the SIGTERM handler and the exit hook, the shard           *)
(* functions, the listing of the collections, and the operations on        *)
(* running shards and on ZooKeeper (reload, optimize, configuration).      *)
(*                                                                         *)
(* An orchestrator process p runs one operation.  In the installation and  *)
(* the supervision, each filesystem access, each blocking call and each    *)
(* statement that touches the process-wide state is one step, so that      *)
(* steps of different processes interleave the way independent OS          *)
(* processes do.  The layout of an instance directory, which belongs to    *)
(* one invocation, is built in one step; every HTTP request and every run  *)
(* of zkcli is a step.                                                     *)
(***************************************************************************)
EXTENDS Integers, Sequences, FiniteSets, TLC

(***************************************************************************)
(* Bounds of the model.                                                    *)
(***************************************************************************)
\* number of orchestrator processes started concurrently
NumProcs == 2
\* highest legacy shard number that may be present in the working directory
MaxLegacyShard == 3
\* connect_timeout: number of probes of wait_for_tcp_port_to_open
ConnectRetries == 2

Procs == 1..NumProcs

VARIABLES
    dist,        \* files of the distribution directory solr-<version>/
    lockOwner,   \* process that created the existing 'installing' file (0: none)
    pc,          \* position of every process
    caller,      \* call site of the running __solr_is_installed
    ret,         \* what the last __solr_is_installed of the process returned
    err,         \* exception that ended the process ("none": no exception)
    via,         \* how __install_solr returned: "none", "recheck", "final"
    entry,       \* what held when the process entered __install_solr
    downloaded,  \* the process downloaded the archive
    passed,      \* start preconditions the process has established
    cwd,         \* legacy shard layout of the working directory
    msg,         \* what __raise_if_old_shards_exist did
    child,       \* state of the child Solr process
    solr_pid,    \* global __solr_pid: recorded or None
    handlers,    \* registered: "SIGCHLD", "SIGTERM", "atexit"
    portOpen,    \* the target port of the process accepts connections
    probes,      \* probes made by wait_for_tcp_port_to_open
    sig,         \* termination signal delivered to the parent
    kills,       \* calls of gracefully_kill_child_process
    op,          \* the operation that was invoked, with its arguments
    asked,       \* its arguments dist_directory and solr_version: the default
                 \* pair, or another pair and the files of that distribution
    home,        \* entries of <Solr home>/collections/
    srcs,        \* source paths of the layout that exist
    inst,        \* the instance data directory and its entries
    openPorts,   \* shard ports that accept connections
    sent,        \* HTTP requests and zkcli runs made so far, in order
    listing,     \* what the last __collections() did
    cur,         \* shard_num of the running reload_solr_shard
    todo,        \* collections the running loop has still to visit
    out          \* results of __shard_name, __shard_port, __shard_data_dir

vars == <<dist, lockOwner, pc, caller, ret, err, via, entry, downloaded, passed,
          cwd, msg, child, solr_pid, handlers, portOpen, probes, sig, kills,
          op, asked, home, srcs, inst, openPorts, sent, listing, cur, todo, out>>

distVars == <<dist, lockOwner>>
installVars == <<caller, ret, via, entry, downloaded>>
guardVars == <<cwd, msg>>
childVars == <<child, solr_pid, handlers, portOpen, probes, sig, kills>>
opVars == <<op, asked, home, srcs, inst, openPorts, sent, listing, cur, todo, out>>


(***************************************************************************)
(* __raise_if_old_shards_exist, as a function of the working directory.    *)
(*                                                                         *)
(* A directory entry matched by glob("mediacloud-shard-*") is represented  *)
(* by the text after the prefix, a sequence of characters: 0..9 are the    *)
(* digits, NonDigit is any other character.                                *)
(***************************************************************************)
NonDigit == 10

LegacyCollections == {"collection1", "collection2"}

\* re.search(r'^mediacloud-shard-(\d+?)$', ...) matches
IsDigits(s) == Len(s) >= 1 /\ \A i \in 1..Len(s) : s[i] \in 0..9

RECURSIVE ParseInt(_)
\* int(old_shard_num.group(1))
ParseInt(s) ==
    IF Len(s) = 0 THEN 0
    ELSE ParseInt(SubSeq(s, 1, Len(s) - 1)) * 10 + s[Len(s)]

RECURSIVE FormatInt(_)
\* "%d" % shard_num
FormatInt(n) ==
    IF n < 10 THEN <<n>> ELSE FormatInt(n \div 10) \o <<n % 10>>

SetMax(S) == IF S = {} THEN 0 ELSE CHOOSE x \in S : \A y \in S : y <= x

RECURSIVE SetToSeq(_)
\* the order in which glob lists a set of entries (unspecified, fixed)
SetToSeq(S) ==
    IF S = {} THEN << >>
    ELSE LET x == CHOOSE y \in S : TRUE IN <<x>> \o SetToSeq(S \ {x})

\* variant of NumShards: the number of old shard directories, not the highest
\* shard number
NumShardsMutCount(c) == Cardinality(c.oldShards)

\* num_shards = max(num_shards, old_shard_num) over all old shards
NumShards(c) == SetMax({ParseInt(s) : s \in c.oldShards})

\* glob.glob("mediacloud-shard-%d/solr/" + "/collection*")
ShardCollectionPaths(c, n) ==
    IF FormatInt(n) \in c.oldShards /\ n \in DOMAIN c.colls
    THEN c.colls[n] ELSE {}

\* the checks made for one collection of a shard before its mv line is added
CollectionError(c, n, coll) ==
    IF <<n, coll>> \in c.noData THEN "SourceDataMissing"
    ELSE IF ~c.baseDataDir THEN "DataDirMissing"
    ELSE IF <<n, coll>> \in c.dstExists THEN "DestinationExists"
    ELSE "none"

\* the exception raised while the mv lines of shard n are written, if any
ShardError(c, n) ==
    LET paths == ShardCollectionPaths(c, n)
        bad   == {coll \in paths : CollectionError(c, n, coll) # "none"}
    IN  IF paths = {} THEN "NoCollections"
        ELSE IF bad # {} THEN CollectionError(c, n, CHOOSE coll \in bad : TRUE)
        ELSE "none"

RECURSIVE MvLines(_, _, _)
\* the mv lines of shards n..last, shard by shard
MvLines(c, n, last) ==
    IF n > last THEN << >>
    ELSE [i \in 1..Cardinality(ShardCollectionPaths(c, n)) |->
             [shard |-> n, coll |-> SetToSeq(ShardCollectionPaths(c, n))[i]]]
         \o MvLines(c, n + 1, last)

NoScript == [recreate |-> << >>, mv |-> << >>, rm |-> << >>]

\* the guard has not run
NotRun == [outcome |-> "none", error |-> "none", shard |-> 0, script |-> NoScript]

Raised(kind, n) ==
    [outcome |-> "raise", error |-> kind, shard |-> n, script |-> NoScript]

\* variant of RaiseIfOldShardsExist: returns whatever the directory holds
RaiseIfOldShardsExistMutSilent(c) ==
    [outcome |-> "return", error |-> "none", shard |-> 0, script |-> NoScript]

\* the whole guard: what it returns or raises for working directory c
RaiseIfOldShardsExist(c) ==
    IF c.oldShards = {}
    THEN [outcome |-> "return", error |-> "none", shard |-> 0, script |-> NoScript]
    ELSE IF \E s \in c.oldShards : ~IsDigits(s)
    THEN Raised("UnparsableShard", 0)
    ELSE LET num_shards == NumShards(c)
             failing == {n \in 1..num_shards : ShardError(c, n) # "none"}
         IN  IF failing # {}
             THEN LET n == CHOOSE m \in failing : \A k \in failing : m <= k
                  IN  Raised(ShardError(c, n), n)
             ELSE [outcome |-> "raise", error |-> "OldShards", shard |-> 0,
                   script |->
                     [recreate |-> [n \in 1..num_shards |->
                                       [shard_num |-> n, shard_count |-> num_shards]],
                      mv |-> MvLines(c, 1, num_shards),
                      rm |-> [n \in 1..num_shards |-> n]]]

(***************************************************************************)
(* Working directories.                                                    *)
(***************************************************************************)
ShardNums == 1..MaxLegacyShard

\* names the glob may find: the canonical ones, "0", "01" and a non-number
Suffixes == {FormatInt(n) : n \in ShardNums} \cup {<<0>>, <<0, 1>>, <<NonDigit>>}

Pairs == ShardNums \X LegacyCollections

AtMostOne(S) == {{}} \cup {{x} : x \in S}

Cwds ==
    {c \in [oldShards : SUBSET Suffixes,
            colls : [ShardNums -> SUBSET LegacyCollections],
            noData : AtMostOne(Pairs),
            dstExists : AtMostOne(Pairs),
            baseDataDir : BOOLEAN] :
        /\ \A n \in ShardNums : FormatInt(n) \notin c.oldShards => c.colls[n] = {}
        /\ \A q \in c.noData \cup c.dstExists : q[2] \in c.colls[q[1]]
        /\ c.oldShards = {} => c.baseDataDir}

EmptyCwd ==
    [oldShards |-> {}, colls |-> [n \in ShardNums |-> {}], noData |-> {},
     dstExists |-> {}, baseDataDir |-> TRUE]

OneOldShardCwd ==
    [oldShards |-> {<<1>>},
     colls |-> [n \in ShardNums |-> IF n = 1 THEN {"collection1"} ELSE {}],
     noData |-> {}, dstExists |-> {}, baseDataDir |-> TRUE]

(***************************************************************************)
(* Shard addressing: __shard_name, __shard_port, __shard_data_dir.         *)
(*                                                                         *)
(* A directory name is held as the text up to and including its last '-'   *)
(* (prefix) and the characters after it (rest, as in the legacy guard).    *)
(***************************************************************************)
\* highest shard number and shard count given to an operation
MaxShardNum == 12
MaxShardCount == 3

\* shard numbers given to the shard functions, valid or not
ShardArgs == (0 - 2)..MaxShardNum

\* MC_SOLR_CLUSTER_STARTING_PORT, MC_SOLR_STANDALONE_PORT
ClusterStartingPort == 7980
StandalonePort == 8983

\* values of starting_port
StartingPorts == {0, ClusterStartingPort, 65535}

NoName == [prefix |-> "", rest |-> << >>]

\* a function has not been called / raised / returned a number or a name
NotCalled == [outcome |-> "none", error |-> "none", num |-> 0, name |-> NoName]
Fails(e) == [outcome |-> "raise", error |-> e, num |-> 0, name |-> NoName]
Value(num, name) == [outcome |-> "return", error |-> "none", num |-> num, name |-> name]

\* variant of ShardName: only the last digit of the shard number is written
ShardNameMutLastDigit(shard_num) ==
    IF shard_num < 1 THEN Fails("InvalidShard")
    ELSE Value(0, [prefix |-> "mediacloud-cluster-shard-",
                   rest |-> FormatInt(shard_num % 10)])

\* "mediacloud-cluster-shard-%d" % shard_num
ShardName(shard_num) ==
    IF shard_num < 1 THEN Fails("InvalidShard")
    ELSE Value(0, [prefix |-> "mediacloud-cluster-shard-", rest |-> FormatInt(shard_num)])

\* variant of ShardPort: the first shard gets starting_port + 1
ShardPortMutOffByOne(shard_num, starting_port) ==
    IF shard_num < 1 THEN Fails("InvalidShard")
    ELSE Value(starting_port + shard_num, NoName)

\* starting_port + shard_num - 1
ShardPort(shard_num, starting_port) ==
    IF shard_num < 1 THEN Fails("InvalidShard")
    ELSE Value(starting_port + shard_num - 1, NoName)

\* os.path.join(base_data_dir, shard_name): the directory of that name under
\* the base data directory
ShardDataDir(shard_num, base_is_dir) ==
    IF shard_num < 1 THEN Fails("InvalidShard")
    ELSE IF ~base_is_dir THEN Fails("DataDirMissing")
    ELSE ShardName(shard_num)

\* glob.glob(pwd + "/mediacloud-shard-*") lists the name
LegacyGlob(name) == name.prefix = "mediacloud-shard-"

\* the name is listed by the glob and re.search(r'^mediacloud-shard-(\d+?)$')
\* matches it
LegacyMatch(name) == LegacyGlob(name) /\ IsDigits(name.rest)

(***************************************************************************)
(* __collections: the collections of <Solr home>/collections/.             *)
(*                                                                         *)
(* A name is the sequence of its character codes.  An entry of the         *)
(* directory is absent, a file, a directory without 'conf' or a directory  *)
(* with 'conf'.                                                            *)
(***************************************************************************)
Dot == 46
Underscore == 95
LetterA == 97
LetterB == 98

\* "_a", ".a", "a", "ab", "b"
CollectionNames ==
    {<<Underscore, LetterA>>, <<Dot, LetterA>>, <<LetterA>>, <<LetterA, LetterB>>,
     <<LetterB>>}

EntryKinds == {"absent", "file", "noconf", "conf"}

\* name.startswith("_") or name.startswith(".")
Excluded(name) == name[1] = Underscore \/ name[1] = Dot

\* os.path.join(collections_path, name)
CollectionPath(name) == <<"collections", name>>

\* the names that pass the prefix test and os.path.isdir(full_path)
Discovered(h) ==
    {n \in CollectionNames : ~Excluded(n) /\ h.entries[n] \in {"noconf", "conf"}}

\* the discovered names that fail os.path.isdir(collection_conf_path)
Offenders(h) == {n \in Discovered(h) : h.entries[n] = "noconf"}

NotListed == [outcome |-> "none", error |-> "none", naming |-> << >>, map |-> << >>]

ListFails(e, n) == [outcome |-> "raise", error |-> e, naming |-> n, map |-> << >>]

\* variant of Collections: no test of the 'conf' subdirectory
CollectionsMutNoConfTest(h) ==
    {[outcome |-> "return", error |-> "none", naming |-> << >>,
      map |-> [n \in Discovered(h) |-> CollectionPath(n)]]}

\* what __collections() may do for home h: os.listdir gives the names in any
\* order, so the exception names whichever offending collection comes first
Collections(h) ==
    IF ~h.dir THEN {ListFails("NoCollectionsDir", << >>)}
    ELSE IF Offenders(h) # {}
    THEN {ListFails("ConfigurationError", n) : n \in Offenders(h)}
    ELSE {[outcome |-> "return", error |-> "none", naming |-> << >>,
           map |-> [n \in Discovered(h) |-> CollectionPath(n)]]}

RECURSIVE NameLess(_, _)
\* a < b for two str values: the first differing character decides, a proper
\* prefix comes first
NameLess(a, b) ==
    IF Len(a) = 0 THEN Len(b) > 0
    ELSE IF Len(b) = 0 THEN FALSE
    ELSE IF a[1] # b[1] THEN a[1] < b[1]
    ELSE NameLess(Tail(a), Tail(b))

RECURSIVE SortedMutReverse(_)
\* variant of Sorted: descending order
SortedMutReverse(S) ==
    IF S = {} THEN << >>
    ELSE LET m == CHOOSE x \in S : \A y \in S \ {x} : NameLess(y, x)
         IN  <<m>> \o SortedMutReverse(S \ {m})

RECURSIVE Sorted(_)
\* sorted(collections.items()), sorted(collections): ascending by name
Sorted(S) ==
    IF S = {} THEN << >>
    ELSE LET m == CHOOSE x \in S : \A y \in S \ {x} : NameLess(x, y)
         IN  <<m>> \o Sorted(S \ {m})

Homes ==
    {h \in [dir : BOOLEAN, entries : [CollectionNames -> EntryKinds]] :
        ~h.dir => \A n \in CollectionNames : h.entries[n] = "absent"}

\* collections "a" and "b", both with 'conf'
GoodHome ==
    [dir |-> TRUE,
     entries |-> [n \in CollectionNames |->
                     IF n \in {<<LetterA>>, <<LetterB>>} THEN "conf" ELSE "absent"]]

(***************************************************************************)
(* The instance layout of __run_solr, lines 360-461, as a function of the  *)
(* collections, the existing source paths and the instance directory.      *)
(***************************************************************************)
\* config_items_to_symlink, library_items_to_symlink
ConfigItems == <<"contexts", "etc", "resources", "solr.xml">>
LibraryItems == <<"lib", "solr-webapp", "start.jar", "webapps">>

Range(s) == {s[i] : i \in 1..Len(s)}

AllItems == Range(ConfigItems) \cup Range(LibraryItems)

\* <Solr home>/resources/log4j.properties
Log4j == "resources/log4j.properties"

\* what a symlink points to
NoTarget == [root |-> "", item |-> "", coll |-> << >>]
Elsewhere == [root |-> "elsewhere", item |-> "", coll |-> << >>]
ConfTarget(n) == [root |-> "collections", item |-> "conf", coll |-> n]
ItemTarget(root, item) == [root |-> root, item |-> item, coll |-> << >>]

\* a destination path: nothing there, a symlink, or a regular file or directory
Absent == [kind |-> "absent", target |-> NoTarget]
Other == [kind |-> "other", target |-> NoTarget]
Symlink(t) == [kind |-> "symlink", target |-> t]

\* relative_symlink(source, link_name): the symlink is made unless something
\* is at link_name already
relative_symlink(dst, target) ==
    IF dst.kind = "absent" THEN [error |-> "none", entry |-> Symlink(target)]
    ELSE [error |-> "FileExists", entry |-> dst]

\* variant of Relink: a regular file or directory is removed as well
RelinkMutClobber(dst, target) == relative_symlink(Absent, target)

\* variant of Relink: an existing symlink is not unlinked
RelinkMutNoUnlink(dst, target) ==
    IF dst.kind = "other" THEN [error |-> "NotASymlink", entry |-> dst]
    ELSE relative_symlink(dst, target)

\* "Recreate symlink just in case": if os.path.lexists(dst): raise unless
\* os.path.islink(dst), os.unlink(dst); then relative_symlink(src, dst)
Relink(dst, target) ==
    IF dst.kind = "other" THEN [error |-> "NotASymlink", entry |-> dst]
    ELSE relative_symlink(Absent, target)

RECURSIVE BuildCollections(_, _)
\* the loop of lines 366-401 over the sorted collections: directory, 'conf'
\* symlink and core.properties of every collection
BuildCollections(names, i) ==
    IF names = << >> THEN [error |-> "none", inst |-> i]
    ELSE LET n == Head(names)
             made == [i EXCEPT !.dirs = @ \cup {n}]
             r == Relink(i.conf[n], ConfTarget(n))
         IN  IF r.error # "none" THEN [error |-> r.error, inst |-> made]
             ELSE BuildCollections(Tail(names),
                      [made EXCEPT !.conf[n] = r.entry, !.props[n] = "descriptor"])

RECURSIVE LinkItems(_, _, _, _)
\* the loops of lines 410-423 and 432-445: every item must exist at its
\* source and is symlinked into the instance directory
LinkItems(items, root, present, i) ==
    IF items = << >> THEN [error |-> "none", inst |-> i]
    ELSE LET item == Head(items)
             r == Relink(i.items[item], ItemTarget(root, item))
         IN  IF item \notin present THEN [error |-> "MissingSource", inst |-> i]
             ELSE IF r.error # "none" THEN [error |-> r.error, inst |-> i]
             ELSE LinkItems(Tail(items), root, present, [i EXCEPT !.items[item] = r.entry])

\* lines 360-461 for the outcome l of __collections, the existing sources s
\* and the instance directory i: the error raised, if any, and the instance
\* directory left behind
Layout(l, s, i) ==
    LET made == [i EXCEPT !.exists = TRUE]
        c == BuildCollections(Sorted(DOMAIN l.map), made)
        ci == LinkItems(ConfigItems, "home", s, c.inst)
        li == LinkItems(LibraryItems, "example", s, ci.inst)
    IN  IF l.outcome = "raise" THEN [error |-> l.error, inst |-> made]
        ELSE IF c.error # "none" THEN c
        ELSE IF ci.error # "none" THEN ci
        ELSE IF li.error # "none" THEN li
        ELSE IF Log4j \notin s THEN [error |-> "MissingSource", inst |-> li.inst]
        ELSE li

\* exceptions of the layout
LayoutErrors == {"NoCollectionsDir", "ConfigurationError", "NotASymlink",
                 "MissingSource", "FileExists"}

\* no instance data directory yet
EmptyInst ==
    [exists |-> FALSE, dirs |-> {},
     conf |-> [n \in CollectionNames |-> Absent],
     props |-> [n \in CollectionNames |-> "absent"],
     items |-> [item \in AllItems |-> Absent]]

\* instance directories before a start: none, or one with a single entry
\* that is a regular file or directory, a symlink to somewhere else, or a
\* core.properties with other content
Insts ==
    {EmptyInst}
    \cup {[EmptyInst EXCEPT !.exists = TRUE, !.dirs = {n}, !.conf[n] = e] :
            n \in {m \in CollectionNames : ~Excluded(m)}, e \in {Other, Symlink(Elsewhere)}}
    \cup {[EmptyInst EXCEPT !.exists = TRUE, !.dirs = {n}, !.props[n] = "stale"] :
            n \in {m \in CollectionNames : ~Excluded(m)}}
    \cup {[EmptyInst EXCEPT !.exists = TRUE, !.items[item] = e] :
            item \in AllItems, e \in {Other, Symlink(Elsewhere)}}

AllSources == AllItems \cup {Log4j}

\* log4j.properties of zkcli.sh: the path of Solr 4, then the fallback
ZkLog4jPaths == {"example/cloud-scripts/log4j.properties",
                 "server/scripts/cloud-scripts/log4j.properties"}

\* the arguments of an operation: its name, shard number, shard count,
\* starting port, port and explicit list of collections (given or not)
Op(name, shard_num, shard_count, port, given, names) ==
    [name |-> name, shard_num |-> shard_num, shard_count |-> shard_count,
     starting_port |-> ClusterStartingPort, port |-> port, given |-> given, names |-> names]

\* dist_directory=MC_DIST_DIR, solr_version=MC_SOLR_VERSION: the files of this
\* distribution are those of dist
DefaultDistribution == [default |-> TRUE, installed |-> FALSE, readme |-> FALSE]

\* another (dist_directory, solr_version), with its 'installed' file and its
\* README.txt
OtherDistributions == [default : {FALSE}, installed : BOOLEAN, readme : BOOLEAN]

\* the start of an instance
RunOp == Op("run", 1, 1, StandalonePort, FALSE, {})

\* none of the shard functions was called
NoOut == [name |-> NotCalled, port |-> NotCalled, data_dir |-> NotCalled]

\* sets of existing source paths: all of them, or all but one
SourceSets ==
    {AllSources} \cup {AllSources \ {x} : x \in AllSources \ {"resources"}}
    \cup {AllSources \ {"resources", Log4j}}

\* homes of the layout runs: ".a" is absent, "_a" has no 'conf' if present
LayoutHomes ==
    {h \in Homes :
        /\ h.dir
        /\ h.entries[<<Dot, LetterA>>] = "absent"
        /\ h.entries[<<Underscore, LetterA>>] \in {"absent", "noconf"}
        /\ h.entries[<<LetterA>>] \in {"absent", "noconf", "conf"}
        /\ h.entries[<<LetterA, LetterB>>] \in {"absent", "conf"}
        /\ h.entries[<<LetterB>>] \in {"noconf", "conf"}}

(***************************************************************************)
(* Initial states: no process has started.  The distribution directory may *)
(* hold an 'installed' file and a README.txt in any combination (a stale   *)
(* 'installed' file is the case __solr_is_installed heals).                *)
(***************************************************************************)
\* __solr_is_installed has not returned yet / has returned value, after an
\* unlink of the 'installed' file or not
NoReturn == [called |-> FALSE, value |-> FALSE, unlinked |-> FALSE]
Returned(value, unlinked) == [called |-> TRUE, value |-> value, unlinked |-> unlinked]

InitProcs ==
    /\ lockOwner = 0
    /\ pc = [p \in Procs |-> "start"]
    /\ caller = [p \in Procs |-> "none"]
    /\ ret = [p \in Procs |-> NoReturn]
    /\ err = [p \in Procs |-> "none"]
    /\ via = [p \in Procs |-> "none"]
    /\ entry = [p \in Procs |-> [called |-> FALSE, locked |-> FALSE, installed |-> FALSE]]
    /\ downloaded = [p \in Procs |-> FALSE]
    /\ passed = [p \in Procs |-> {}]
    /\ msg = [p \in Procs |-> NotRun]
    /\ child = [p \in Procs |-> "none"]
    /\ solr_pid = [p \in Procs |-> "None"]
    /\ handlers = [p \in Procs |-> {}]
    /\ portOpen = [p \in Procs |-> FALSE]
    /\ probes = [p \in Procs |-> 0]
    /\ sig = [p \in Procs |-> "none"]
    /\ kills = [p \in Procs |-> 0]

\* operation o with open shard ports ports and instance directory i; nothing
\* was called or sent
InitEnv(o, ports, i) ==
    /\ op = o
    /\ asked = DefaultDistribution
    /\ inst = i
    /\ openPorts = ports
    /\ sent = << >>
    /\ listing = NotListed
    /\ cur = IF o.name = "reload" THEN o.shard_num ELSE 0
    /\ todo = << >>
    /\ out = NoOut

\* the operation is the start of an instance with a complete home and
\* distribution
InitOps ==
    /\ InitEnv(RunOp, {}, EmptyInst)
    /\ home = GoodHome
    /\ srcs = AllSources \cup ZkLog4jPaths

Init ==
    /\ dist \in [installing : {FALSE}, installed : BOOLEAN, readme : BOOLEAN]
    /\ cwd = EmptyCwd
    /\ InitProcs
    /\ InitOps

(***************************************************************************)
(* Helpers shared by the steps.                                            *)
(***************************************************************************)
Goto(p, loc) == pc' = [pc EXCEPT ![p] = loc]

\* an uncaught exception ends the interpreter: the exit hooks registered with
\* atexit run first
Raise(p, e) ==
    /\ err' = [err EXCEPT ![p] = e]
    /\ Goto(p, IF "atexit" \in handlers[p] THEN "atexit" ELSE "exited")

\* positions between lock_file(installing_file_path) and unlock_file(...)
Locked(p) ==
    \/ pc[p] \in {"download", "extract", "extract_war", "create_installed", "unlock"}
    \/ /\ pc[p] \in {"isfile_installed", "isfile_readme", "unlink_installed"}
       /\ caller[p] = "install_locked"

(***************************************************************************)
(* __solr_is_installed: two file tests and an unlink, each a step.         *)
(***************************************************************************)
\* the statement that follows the installation: line 354 of __run_solr, line
\* 293 of update_zookeeper_solr_configuration
AfterInstall == IF op.name = "sync" THEN "zk_port" ELSE "solr_home"

\* the statement after the call, by call site and returned value
Continue(p, value) ==
    CASE caller[p] \in {"run_solr", "update_zookeeper"} ->
            /\ Goto(p, IF value THEN AfterInstall ELSE "install_solr")
            /\ passed' = [passed EXCEPT ![p] = IF value THEN @ \cup {"installed"} ELSE @]
            /\ UNCHANGED <<err, via>>
      [] caller[p] = "install_entry" ->
            /\ IF value THEN Raise(p, "AlreadyInstalled")
                        ELSE Goto(p, "lock") /\ UNCHANGED err
            /\ UNCHANGED <<passed, via>>
      [] caller[p] = "install_locked" ->
            /\ Goto(p, IF value THEN AfterInstall ELSE "download")
            /\ passed' = [passed EXCEPT ![p] = IF value THEN @ \cup {"installed"} ELSE @]
            /\ via' = [via EXCEPT ![p] = IF value THEN "recheck" ELSE @]
            /\ UNCHANGED err
      [] caller[p] = "install_final" ->
            /\ IF value THEN Goto(p, AfterInstall) /\ UNCHANGED err
                        ELSE Raise(p, "NotInstalled")
            /\ passed' = [passed EXCEPT ![p] = IF value THEN @ \cup {"installed"} ELSE @]
            /\ via' = [via EXCEPT ![p] = IF value THEN "final" ELSE @]

\* return True / return False, after an unlink of the 'installed' file or not
Return(p, value, unlinked) ==
    /\ ret' = [ret EXCEPT ![p] = Returned(value, unlinked)]
    /\ Continue(p, value)

\* os.path.isfile(installed_file_path)
IsfileInstalled(p) ==
    /\ pc[p] = "isfile_installed"
    /\ IF dist.installed
       THEN Goto(p, "isfile_readme") /\ UNCHANGED <<ret, err, via, passed>>
       ELSE Return(p, FALSE, FALSE)
    /\ UNCHANGED <<opVars, distVars, caller, entry, downloaded, guardVars, childVars>>

\* variant of IsfileReadme: True as soon as the 'installed' file exists
IsfileReadmeMutNoArtifact(p) ==
    /\ pc[p] = "isfile_readme"
    /\ Return(p, TRUE, FALSE)
    /\ UNCHANGED <<opVars, distVars, caller, entry, downloaded, guardVars, childVars>>

\* os.path.isfile(os.path.join(solr_path, "README.txt"))
IsfileReadme(p) ==
    /\ pc[p] = "isfile_readme"
    /\ IF dist.readme
       THEN Return(p, TRUE, FALSE)
       ELSE Goto(p, "unlink_installed") /\ UNCHANGED <<ret, err, via, passed>>
    /\ UNCHANGED <<opVars, distVars, caller, entry, downloaded, guardVars, childVars>>

\* os.unlink(installed_file_path); return False
UnlinkInstalled(p) ==
    /\ pc[p] = "unlink_installed"
    /\ IF dist.installed
       THEN /\ dist' = [dist EXCEPT !.installed = FALSE]
            /\ Return(p, FALSE, TRUE)
       ELSE \* the file is gone: os.unlink raises OSError
            /\ Raise(p, "OSError")
            /\ UNCHANGED <<dist, ret, via, passed>>
    /\ UNCHANGED <<opVars, lockOwner, caller, entry, downloaded, guardVars, childVars>>

(***************************************************************************)
(* __run_solr, lines 350-352, and __install_solr.                          *)
(***************************************************************************)
\* if not __solr_is_installed(): ...
StartRunSolr(p) ==
    /\ pc[p] = "start"
    /\ Goto(p, "isfile_installed")
    /\ caller' = [caller EXCEPT ![p] = "run_solr"]
    /\ UNCHANGED <<opVars, distVars, ret, err, via, entry, downloaded, passed, guardVars, childVars>>

\* __install_solr() is entered: its first statement is the installed check
InstallSolr(p) ==
    /\ pc[p] = "install_solr"
    /\ Goto(p, "isfile_installed")
    /\ caller' = [caller EXCEPT ![p] = "install_entry"]
    /\ entry' = [entry EXCEPT ![p] =
                    [called |-> TRUE,
                     locked |-> dist.installing /\ lockOwner \in Procs \ {p},
                     installed |-> dist.installed /\ dist.readme]]
    /\ UNCHANGED <<opVars, distVars, ret, err, via, downloaded, passed, guardVars, childVars>>

\* lock_file(path, timeout): the file is created only if it does not exist
lock_file_creates(exists) == ~exists

\* variant of LockSolrDirectory: goes on whether or not the file exists
LockSolrDirectoryMutNoLock(p) ==
    /\ pc[p] = "lock"
    /\ dist' = [dist EXCEPT !.installing = TRUE]
    /\ lockOwner' = p
    /\ Goto(p, "isfile_installed")
    /\ caller' = [caller EXCEPT ![p] = "install_locked"]
    /\ UNCHANGED <<opVars, ret, err, via, entry, downloaded, passed, guardVars, childVars>>

\* lock_file(installing_file_path, timeout=MC_INSTALL_TIMEOUT) gets the lock
LockSolrDirectory(p) ==
    /\ pc[p] = "lock"
    /\ lock_file_creates(dist.installing)
    /\ dist' = [dist EXCEPT !.installing = TRUE]
    /\ lockOwner' = p
    /\ Goto(p, "isfile_installed")
    /\ caller' = [caller EXCEPT ![p] = "install_locked"]
    /\ UNCHANGED <<opVars, ret, err, via, entry, downloaded, passed, guardVars, childVars>>

\* lock_file(installing_file_path, timeout=MC_INSTALL_TIMEOUT) gives up: the
\* file still exists when the timeout has passed
LockTimeout(p) ==
    /\ pc[p] = "lock"
    /\ ~lock_file_creates(dist.installing)
    /\ Raise(p, "LockTimeout")
    /\ UNCHANGED <<opVars, distVars, installVars, passed, guardVars, childVars>>

\* variant of Download: the 'installed' file is written next, nothing extracted
DownloadMutSkipsExtraction(p) ==
    /\ pc[p] = "download"
    /\ \/ /\ Goto(p, "create_installed")
          /\ downloaded' = [downloaded EXCEPT ![p] = TRUE]
          /\ UNCHANGED err
       \/ /\ Raise(p, "DownloadError")
          /\ UNCHANGED downloaded
    /\ UNCHANGED <<opVars, distVars, caller, ret, via, entry, passed, guardVars, childVars>>

\* download_file_to_temp_path(solr_dist_url)
Download(p) ==
    /\ pc[p] = "download"
    /\ \/ /\ Goto(p, "extract")
          /\ downloaded' = [downloaded EXCEPT ![p] = TRUE]
          /\ UNCHANGED err
       \/ /\ Raise(p, "DownloadError")
          /\ UNCHANGED downloaded
    /\ UNCHANGED <<opVars, distVars, caller, ret, via, entry, passed, guardVars, childVars>>

\* extract_tarball_to_directory(..., strip_root=True): README.txt is part of
\* the archive; a failed extraction may have written it already
Extract(p) ==
    /\ pc[p] = "extract"
    /\ \/ /\ dist' = [dist EXCEPT !.readme = TRUE]
          /\ Goto(p, "extract_war")
          /\ UNCHANGED err
       \/ /\ \E r \in {dist.readme, TRUE} : dist' = [dist EXCEPT !.readme = r]
          /\ Raise(p, "ExtractError")
    /\ UNCHANGED <<opVars, lockOwner, installVars, passed, guardVars, childVars>>

\* if os.path.isfile(solr_war_path): extract_zip_to_directory(...)
ExtractWar(p) ==
    /\ pc[p] = "extract_war"
    /\ \/ Goto(p, "create_installed") /\ UNCHANGED err
       \/ Raise(p, "ExtractError")
    /\ UNCHANGED <<opVars, distVars, installVars, passed, guardVars, childVars>>

\* lock_file(installed_file_path): no timeout, waits while the file exists
CreateInstalled(p) ==
    /\ pc[p] = "create_installed"
    /\ \/ /\ lock_file_creates(dist.installed)
          /\ dist' = [dist EXCEPT !.installed = TRUE]
          /\ Goto(p, "unlock")
          /\ UNCHANGED err
       \/ /\ Raise(p, "InstalledFileError")
          /\ UNCHANGED dist
    /\ UNCHANGED <<opVars, lockOwner, installVars, passed, guardVars, childVars>>

\* unlock_file(installing_file_path), then the final installed check
UnlockSolrDirectory(p) ==
    /\ pc[p] = "unlock"
    /\ IF dist.installing
       THEN /\ dist' = [dist EXCEPT !.installing = FALSE]
            /\ lockOwner' = 0
            /\ Goto(p, "isfile_installed")
            /\ caller' = [caller EXCEPT ![p] = "install_final"]
            /\ UNCHANGED err
       ELSE /\ Raise(p, "LockFileMissing")
            /\ UNCHANGED <<distVars, caller>>
    /\ UNCHANGED <<opVars, ret, via, entry, downloaded, passed, guardVars, childVars>>

\* the process is killed while it holds the lock (SIGKILL, or SIGTERM, for
\* which nothing is registered before line 502): no statement of it runs
\* any more, and the 'installing' file stays
Crash(p) ==
    /\ Locked(p)
    /\ Goto(p, "killed")
    /\ UNCHANGED <<opVars, distVars, installVars, err, passed, guardVars, childVars>>

(***************************************************************************)
(* __run_solr after the installation: the instance layout, the port test,  *)
(* the legacy shard guard, the spawn and the registration of the handlers. *)
(***************************************************************************)
Preconditions == {"installed", "layout", "port", "guard"}

Pass(p, what) == passed' = [passed EXCEPT ![p] = @ \cup {what}]

\* lines 354-461: Solr home, data directory, collections, symlinks and the
\* files of the distribution that the child needs; any missing input or any
\* entry that is not a symlink raises
BuildLayout(p) ==
    /\ pc[p] = "solr_home"
    /\ \E l \in Collections(home) :
          LET r == Layout(l, srcs, inst)
          IN  /\ listing' = l
              /\ inst' = r.inst
              /\ IF r.error = "none"
                 THEN Goto(p, "port_check") /\ Pass(p, "layout") /\ UNCHANGED err
                 ELSE Raise(p, r.error) /\ UNCHANGED passed
    /\ UNCHANGED <<distVars, installVars, guardVars, childVars,
                   op, asked, home, srcs, openPorts, sent, cur, todo, out>>

\* variant of TcpPortCheck: goes on to the guard when the port is open
TcpPortCheckMutIgnore(p) ==
    /\ pc[p] = "port_check"
    /\ \E open \in BOOLEAN :
          /\ portOpen' = [portOpen EXCEPT ![p] = open]
          /\ Goto(p, "guard")
          /\ passed' = [passed EXCEPT ![p] = IF open THEN @ ELSE @ \cup {"port"}]
          /\ UNCHANGED err
    /\ UNCHANGED <<opVars, distVars, installVars, guardVars,
                   child, solr_pid, handlers, probes, sig, kills>>

\* if tcp_port_is_open(port=port): raise
TcpPortCheck(p) ==
    /\ pc[p] = "port_check"
    /\ \E open \in BOOLEAN :
          /\ portOpen' = [portOpen EXCEPT ![p] = open]
          /\ IF open
             THEN Raise(p, "PortInUse") /\ UNCHANGED passed
             ELSE Goto(p, "guard") /\ Pass(p, "port") /\ UNCHANGED err
    /\ UNCHANGED <<opVars, distVars, installVars, guardVars,
                   child, solr_pid, handlers, probes, sig, kills>>

\* __raise_if_old_shards_exist()
OldShardsGuard(p) ==
    /\ pc[p] = "guard"
    /\ LET r == RaiseIfOldShardsExist(cwd)
       IN  /\ msg' = [msg EXCEPT ![p] = r]
           /\ IF r.outcome = "return"
              THEN Goto(p, "popen") /\ Pass(p, "guard") /\ UNCHANGED err
              ELSE Raise(p, r.error) /\ UNCHANGED passed
    /\ UNCHANGED <<opVars, distVars, installVars, cwd, childVars>>

\* process = subprocess.Popen(args)
Popen(p) ==
    /\ pc[p] = "popen"
    /\ child' = [child EXCEPT ![p] = "running"]
    /\ Goto(p, "set_pid")
    /\ UNCHANGED <<opVars, distVars, installVars, err, passed, guardVars,
                   solr_pid, handlers, portOpen, probes, sig, kills>>

\* __solr_pid = process.pid
SetSolrPid(p) ==
    /\ pc[p] = "set_pid"
    /\ solr_pid' = [solr_pid EXCEPT ![p] = "pid"]
    /\ Goto(p, "ignore_sigchld")
    /\ UNCHANGED <<opVars, distVars, installVars, err, passed, guardVars,
                   child, handlers, portOpen, probes, sig, kills>>

Register(p, what, next) ==
    /\ handlers' = [handlers EXCEPT ![p] = @ \cup {what}]
    /\ Goto(p, next)
    /\ UNCHANGED <<opVars, distVars, installVars, err, passed, guardVars,
                   child, solr_pid, portOpen, probes, sig, kills>>

\* signal.signal(signal.SIGCHLD, signal.SIG_IGN)
IgnoreSigchld(p) == pc[p] = "ignore_sigchld" /\ Register(p, "SIGCHLD", "register_sigterm")

\* signal.signal(signal.SIGTERM, __kill_solr_process)
RegisterSigterm(p) == pc[p] = "register_sigterm" /\ Register(p, "SIGTERM", "register_atexit")

\* atexit.register(__kill_solr_process)
RegisterAtexit(p) == pc[p] = "register_atexit" /\ Register(p, "atexit", "wait_port")

\* wait_for_tcp_port_to_open gives up after `made` unanswered probes
retries_exhausted(made) == made >= ConnectRetries

\* a start that takes the end of the probes for an answer
WaitForPortMutIgnoresResult(p) ==
    /\ pc[p] = "wait_port"
    /\ IF portOpen[p]
       THEN Goto(p, "running") /\ UNCHANGED <<err, probes>>
       ELSE /\ probes' = [probes EXCEPT ![p] = @ + 1]
            /\ IF retries_exhausted(probes[p] + 1)
               THEN Goto(p, "running") /\ UNCHANGED err
               ELSE UNCHANGED <<pc, err>>
    /\ UNCHANGED <<opVars, distVars, installVars, passed, guardVars,
                   child, solr_pid, handlers, portOpen, sig, kills>>

\* wait_for_tcp_port_to_open(port=port, retries=connect_timeout): one probe
WaitForPort(p) ==
    /\ pc[p] = "wait_port"
    /\ IF portOpen[p]
       THEN Goto(p, "running") /\ UNCHANGED <<err, probes>>
       ELSE /\ probes' = [probes EXCEPT ![p] = @ + 1]
            /\ IF retries_exhausted(probes[p] + 1)
               THEN Raise(p, "StartupTimeout")
               ELSE UNCHANGED <<pc, err>>
    /\ UNCHANGED <<opVars, distVars, installVars, passed, guardVars,
                   child, solr_pid, handlers, portOpen, sig, kills>>

\* the child Solr starts to listen on its port
ChildListens(p) ==
    /\ child[p] = "running"
    /\ ~portOpen[p]
    /\ portOpen' = [portOpen EXCEPT ![p] = TRUE]
    /\ UNCHANGED <<opVars, distVars, pc, installVars, err, passed, guardVars,
                   child, solr_pid, handlers, probes, sig, kills>>

\* the child Solr ends by itself; SIGCHLD is ignored (its default action, and
\* SIG_IGN from line 500 on), so that the parent is not told
ChildExits(p) ==
    /\ child[p] = "running"
    /\ child' = [child EXCEPT ![p] = "dead"]
    /\ portOpen' = [portOpen EXCEPT ![p] = FALSE]
    /\ UNCHANGED <<opVars, distVars, pc, installVars, err, passed, guardVars,
                   solr_pid, handlers, probes, sig, kills>>

(***************************************************************************)
(* Termination signals and __kill_solr_process.                            *)
(***************************************************************************)
\* the parent runs the code of __run_solr that follows the spawn; termination
\* signals are followed from the spawn on
Supervising(p) ==
    pc[p] \in {"set_pid", "ignore_sigchld", "register_sigterm", "register_atexit",
               "wait_port", "running"}

\* SIGTERM with its default action whatever was registered
SigtermMutDefaultAction(p) ==
    /\ Supervising(p)
    /\ sig[p] = "none"
    /\ sig' = [sig EXCEPT ![p] = "SIGTERM"]
    /\ Goto(p, "exited")
    /\ UNCHANGED <<opVars, distVars, installVars, err, passed, guardVars,
                   child, solr_pid, handlers, portOpen, probes, kills>>

\* SIGTERM: the registered handler runs, else the default action ends the
\* process at once, without exit hooks
Sigterm(p) ==
    /\ Supervising(p)
    /\ sig[p] = "none"
    /\ sig' = [sig EXCEPT ![p] = "SIGTERM"]
    /\ Goto(p, IF "SIGTERM" \in handlers[p] THEN "sigterm_handler" ELSE "exited")
    /\ UNCHANGED <<opVars, distVars, installVars, err, passed, guardVars,
                   child, solr_pid, handlers, portOpen, probes, kills>>

\* SIGINT: Python raises KeyboardInterrupt, which nothing catches
Sigint(p) ==
    /\ Supervising(p)
    /\ sig[p] = "none"
    /\ sig' = [sig EXCEPT ![p] = "SIGINT"]
    /\ Raise(p, "KeyboardInterrupt")
    /\ UNCHANGED <<opVars, distVars, installVars, passed, guardVars,
                   child, solr_pid, handlers, portOpen, probes, kills>>

\* __kill_solr_process(signum, frame), as signal handler or as exit hook;
\* sys.exit() in the handler ends the interpreter, which runs the exit hooks
KillSolrProcess(p) ==
    /\ pc[p] \in {"sigterm_handler", "atexit"}
    /\ IF solr_pid[p] = "None"
       THEN UNCHANGED <<child, portOpen, kills>>
       ELSE \* gracefully_kill_child_process(child_pid=__solr_pid, ...)
            /\ child' = [child EXCEPT ![p] = "dead"]
            /\ portOpen' = [portOpen EXCEPT ![p] = FALSE]
            /\ kills' = [kills EXCEPT ![p] = @ + 1]
    /\ Goto(p, IF pc[p] = "sigterm_handler" /\ "atexit" \in handlers[p]
               THEN "atexit" ELSE "exited")
    /\ UNCHANGED <<opVars, distVars, installVars, err, passed, guardVars,
                   solr_pid, handlers, probes, sig>>

(***************************************************************************)
(* The shard functions, called with the arguments of op.                   *)
(***************************************************************************)
\* __shard_name(shard_num=shard_num)
CallShardName(p) ==
    /\ pc[p] = "shard_functions"
    /\ out.name.outcome = "none"
    /\ out' = [out EXCEPT !.name = ShardName(op.shard_num)]
    /\ UNCHANGED <<distVars, pc, installVars, err, passed, guardVars, childVars,
                   op, asked, home, srcs, inst, openPorts, sent, listing, cur, todo>>

\* __shard_port(shard_num=shard_num, starting_port=starting_port)
CallShardPort(p) ==
    /\ pc[p] = "shard_functions"
    /\ out.port.outcome = "none"
    /\ out' = [out EXCEPT !.port = ShardPort(op.shard_num, op.starting_port)]
    /\ UNCHANGED <<distVars, pc, installVars, err, passed, guardVars, childVars,
                   op, asked, home, srcs, inst, openPorts, sent, listing, cur, todo>>

\* __shard_data_dir(shard_num=shard_num, base_data_dir=base_data_dir)
CallShardDataDir(p) ==
    /\ pc[p] = "shard_functions"
    /\ out.data_dir.outcome = "none"
    /\ out' = [out EXCEPT !.data_dir = ShardDataDir(op.shard_num, cwd.baseDataDir)]
    /\ UNCHANGED <<distVars, pc, installVars, err, passed, guardVars, childVars,
                   op, asked, home, srcs, inst, openPorts, sent, listing, cur, todo>>

\* __collections()
CallCollections(p) ==
    /\ pc[p] = "collections"
    /\ \E l \in Collections(home) :
          /\ listing' = l
          /\ IF l.outcome = "raise" THEN Raise(p, l.error)
                                    ELSE Goto(p, "done") /\ UNCHANGED err
    /\ UNCHANGED <<distVars, installVars, passed, guardVars, childVars,
                   op, asked, home, srcs, inst, openPorts, sent, cur, todo, out>>

(***************************************************************************)
(* reload_solr_shard, reload_all_solr_shards and optimize_solr_index.      *)
(***************************************************************************)
\* an HTTP request or a run of zkcli, and whether it succeeded
Effect(tool, port, coll, ok) == [tool |-> tool, port |-> port, coll |-> coll, ok |-> ok]

\* variant of TcpPortIsOpen: every port is taken to be open
TcpPortIsOpenMutAlways(port) == TRUE

\* tcp_port_is_open(hostname=host, port=port)
TcpPortIsOpen(port) == port \in openPorts

\* reload_all_solr_shards, lines 631-635: the loop starts with shard 1
ReloadAllSolrShards(p) ==
    /\ pc[p] = "reload_all"
    /\ IF op.shard_count < 1
       THEN Raise(p, "InvalidShardCount") /\ UNCHANGED cur
       ELSE Goto(p, "reload") /\ cur' = 1 /\ UNCHANGED err
    /\ UNCHANGED <<distVars, installVars, passed, guardVars, childVars,
                   op, asked, home, srcs, inst, openPorts, sent, listing, todo, out>>

\* reload_solr_shard(shard_num=cur), lines 595-608: the shard number, the
\* port of the shard and the collections
ReloadSolrShard(p) ==
    /\ pc[p] = "reload"
    /\ IF ShardPort(cur, op.starting_port).outcome = "raise"
       THEN Raise(p, "InvalidShard") /\ UNCHANGED <<listing, todo>>
       ELSE IF ~TcpPortIsOpen(ShardPort(cur, op.starting_port).num)
       THEN Raise(p, "NotRunning") /\ UNCHANGED <<listing, todo>>
       ELSE \E l \in Collections(home) :
               /\ listing' = l
               /\ IF l.outcome = "raise"
                  THEN Raise(p, l.error) /\ UNCHANGED todo
                  ELSE /\ todo' = Sorted(DOMAIN l.map)
                       /\ Goto(p, "reload_request")
                       /\ UNCHANGED err
    /\ UNCHANGED <<distVars, installVars, passed, guardVars, childVars,
                   op, asked, home, srcs, inst, openPorts, sent, cur, out>>

\* urllib2.urlopen(url) of the RELOAD action for the next collection
ReloadRequest(p) ==
    /\ pc[p] = "reload_request"
    /\ todo # << >>
    /\ \E ok \in BOOLEAN :
          /\ sent' = Append(sent, Effect("reload", ShardPort(cur, op.starting_port).num,
                                         Head(todo), ok))
          /\ IF ok THEN todo' = Tail(todo) /\ UNCHANGED <<pc, err>>
                   ELSE Raise(p, "AdminRequestError") /\ UNCHANGED todo
    /\ UNCHANGED <<distVars, installVars, passed, guardVars, childVars,
                   op, asked, home, srcs, inst, openPorts, listing, cur, out>>

\* variant of ReloadReturn: the loop ends one shard early
ReloadReturnMutEndsEarly(p) ==
    /\ pc[p] = "reload_request"
    /\ todo = << >>
    /\ IF op.name = "reload_all" /\ cur + 1 < op.shard_count
       THEN Goto(p, "reload") /\ cur' = cur + 1
       ELSE Goto(p, "done") /\ UNCHANGED cur
    /\ UNCHANGED <<distVars, installVars, err, passed, guardVars, childVars,
                   op, asked, home, srcs, inst, openPorts, sent, listing, todo, out>>

\* reload_solr_shard returns; reload_all_solr_shards goes on with the next
\* shard number
ReloadReturn(p) ==
    /\ pc[p] = "reload_request"
    /\ todo = << >>
    /\ IF op.name = "reload_all" /\ cur < op.shard_count
       THEN Goto(p, "reload") /\ cur' = cur + 1
       ELSE Goto(p, "done") /\ UNCHANGED cur
    /\ UNCHANGED <<distVars, installVars, err, passed, guardVars, childVars,
                   op, asked, home, srcs, inst, openPorts, sent, listing, todo, out>>

\* optimize_solr_index, lines 647-657: the collections, then the port
OptimizeSolrIndex(p) ==
    /\ pc[p] = "optimize"
    /\ \E l \in IF op.given THEN {NotListed} ELSE Collections(home) :
          /\ listing' = l
          /\ IF l.outcome = "raise"
             THEN Raise(p, l.error) /\ UNCHANGED todo
             ELSE IF ~TcpPortIsOpen(op.port)
             THEN Raise(p, "NotRunning") /\ UNCHANGED todo
             ELSE /\ todo' = Sorted(IF op.given THEN op.names ELSE DOMAIN l.map)
                  /\ Goto(p, "optimize_request")
                  /\ UNCHANGED err
    /\ UNCHANGED <<distVars, installVars, passed, guardVars, childVars,
                   op, asked, home, srcs, inst, openPorts, sent, cur, out>>

\* urllib2.urlopen(url) of the optimize update for the next collection
OptimizeRequest(p) ==
    /\ pc[p] = "optimize_request"
    /\ todo # << >>
    /\ \E ok \in BOOLEAN :
          /\ sent' = Append(sent, Effect("optimize", op.port, Head(todo), ok))
          /\ IF ok THEN todo' = Tail(todo) /\ UNCHANGED <<pc, err>>
                   ELSE Raise(p, "AdminRequestError") /\ UNCHANGED todo
    /\ UNCHANGED <<distVars, installVars, passed, guardVars, childVars,
                   op, asked, home, srcs, inst, openPorts, listing, cur, out>>

\* optimize_solr_index returns
OptimizeReturn(p) ==
    /\ pc[p] = "optimize_request"
    /\ todo = << >>
    /\ Goto(p, "done")
    /\ UNCHANGED <<distVars, installVars, err, passed, guardVars, childVars, opVars>>

(***************************************************************************)
(* update_zookeeper_solr_configuration and __run_solr_zkcli.               *)
(***************************************************************************)
\* variant of command_raises: the exit status of the command is ignored
command_raisesMutNever(succeeded) == FALSE

\* run_command_in_foreground(args) raises when the command fails
command_raises(succeeded) == ~succeeded

\* if not __solr_is_installed(): ... (lines 289-291)
UpdateZookeeperSolrConfiguration(p) ==
    /\ pc[p] = "sync_start"
    /\ Goto(p, "isfile_installed")
    /\ caller' = [caller EXCEPT ![p] = "update_zookeeper"]
    /\ UNCHANGED <<distVars, ret, err, via, entry, downloaded, passed, guardVars,
                   childVars, opVars>>

\* lines 293-300: ZooKeeper must be reachable, then the collections
ZkPortCheck(p) ==
    /\ pc[p] = "zk_port"
    /\ \E up \in BOOLEAN :
          IF ~up
          THEN Raise(p, "ZooKeeperDown") /\ UNCHANGED <<listing, todo>>
          ELSE \E l \in Collections(home) :
                  /\ listing' = l
                  /\ IF l.outcome = "raise"
                     THEN Raise(p, l.error) /\ UNCHANGED todo
                     ELSE /\ todo' = Sorted(DOMAIN l.map)
                          /\ Goto(p, "upconfig")
                          /\ UNCHANGED err
    /\ UNCHANGED <<distVars, installVars, passed, guardVars, childVars,
                   op, asked, home, srcs, inst, openPorts, sent, cur, out>>

\* __run_solr_zkcli(zkcli_args=["-cmd", cmd, ...]) for the next collection:
\* log4j.properties, ZooKeeper's port, then the command
RunSolrZkcli(p, cmd, next) ==
    /\ todo # << >>
    /\ IF ZkLog4jPaths \cap srcs = {}
       THEN Raise(p, "MissingSource") /\ UNCHANGED sent
       ELSE \E up \in BOOLEAN :
               IF ~up
               THEN Raise(p, "ZooKeeperDown") /\ UNCHANGED sent
               ELSE \E succeeded \in BOOLEAN :
                       /\ sent' = Append(sent, Effect(cmd, 0, Head(todo), succeeded))
                       /\ IF command_raises(succeeded)
                          THEN Raise(p, "SyncError")
                          ELSE Goto(p, next) /\ UNCHANGED err

\* __run_solr_zkcli(["-cmd", "upconfig", "-confdir", ..., "-confname", name])
Upconfig(p) ==
    /\ pc[p] = "upconfig"
    /\ RunSolrZkcli(p, "upconfig", "linkconfig")
    /\ UNCHANGED <<distVars, installVars, passed, guardVars, childVars,
                   op, asked, home, srcs, inst, openPorts, listing, cur, todo, out>>

\* __run_solr_zkcli(["-cmd", "linkconfig", "-collection", name, "-confname",
\* name]); the loop goes on with the next collection
Linkconfig(p) ==
    /\ pc[p] = "linkconfig"
    /\ RunSolrZkcli(p, "linkconfig", "upconfig")
    /\ todo' = IF pc'[p] = "upconfig" THEN Tail(todo) ELSE todo
    /\ UNCHANGED <<distVars, installVars, passed, guardVars, childVars,
                   op, asked, home, srcs, inst, openPorts, listing, cur, out>>

\* update_zookeeper_solr_configuration returns
SyncReturn(p) ==
    /\ pc[p] = "upconfig"
    /\ todo = << >>
    /\ Goto(p, "done")
    /\ UNCHANGED <<distVars, installVars, err, passed, guardVars, childVars, opVars>>

(***************************************************************************)
(* Specifications.                                                         *)
(***************************************************************************)
\* a step of __solr_is_installed or of __install_solr
InstallBody(p) ==
    \/ IsfileInstalled(p)
    \/ IsfileReadme(p)
    \/ UnlinkInstalled(p)
    \/ InstallSolr(p)
    \/ LockSolrDirectory(p)
    \/ LockTimeout(p)
    \/ Download(p)
    \/ Extract(p)
    \/ ExtractWar(p)
    \/ CreateInstalled(p)
    \/ UnlockSolrDirectory(p)

\* a step of lines 350-352 of __run_solr or of __install_solr
InstallStep(p) == StartRunSolr(p) \/ InstallBody(p)

\* a step of __run_solr after the installation, of its child or of a signal
RunStep(p) ==
    \/ BuildLayout(p)
    \/ TcpPortCheck(p)
    \/ OldShardsGuard(p)
    \/ Popen(p)
    \/ SetSolrPid(p)
    \/ IgnoreSigchld(p)
    \/ RegisterSigterm(p)
    \/ RegisterAtexit(p)
    \/ WaitForPort(p)
    \/ ChildListens(p)
    \/ ChildExits(p)
    \/ Sigterm(p)
    \/ Sigint(p)
    \/ KillSolrProcess(p)

\* Concurrent orchestrators on one distribution directory.  The steps after
\* the installation touch only the instance directory, the child and the port
\* of their own process, so every process is followed up to the point where
\* the distribution is verified (pc = "solr_home") or an exception ended it.
Next == \E p \in Procs : InstallStep(p)

Spec == Init /\ [][Next]_vars

\* Concurrent orchestrators of which those that hold the lock may be killed.
NextCrash == \E p \in Procs : InstallStep(p) \/ Crash(p)

SpecCrash == Init /\ [][NextCrash]_vars

\* a process that is alive executes its next statement: the waits of the
\* code (lock_file with MC_INSTALL_TIMEOUT) are bounded
SpecCrashFair == SpecCrash /\ \A p \in Procs : WF_vars(InstallStep(p))

\* One orchestrator followed through the whole of __run_solr, no other
\* process running.  An 'installing' file may be left over from an
\* installation that failed.
InitSolo ==
    /\ dist \in [installing : BOOLEAN, installed : BOOLEAN, readme : BOOLEAN]
    /\ cwd \in {EmptyCwd, OneOldShardCwd}
    /\ InitProcs
    /\ InitEnv(RunOp, {}, EmptyInst)
    /\ home \in {GoodHome, [GoodHome EXCEPT !.entries[<<LetterB>>] = "noconf"]}
    /\ srcs = AllSources \cup ZkLog4jPaths

NextSolo == InstallStep(1) \/ RunStep(1)

SpecSolo == InitSolo /\ [][NextSolo]_vars

\* The guard alone: process 1 is about to call __raise_if_old_shards_exist
\* in a working directory drawn from Cwds.
InitGuard ==
    /\ dist = [installing |-> FALSE, installed |-> TRUE, readme |-> TRUE]
    /\ cwd \in Cwds
    /\ lockOwner = 0
    /\ pc = [p \in Procs |-> IF p = 1 THEN "guard" ELSE "start"]
    /\ caller = [p \in Procs |-> IF p = 1 THEN "run_solr" ELSE "none"]
    /\ ret = [p \in Procs |-> IF p = 1 THEN Returned(TRUE, FALSE) ELSE NoReturn]
    /\ err = [p \in Procs |-> "none"]
    /\ via = [p \in Procs |-> "none"]
    /\ entry = [p \in Procs |-> [called |-> FALSE, locked |-> FALSE, installed |-> FALSE]]
    /\ downloaded = [p \in Procs |-> FALSE]
    /\ passed = [p \in Procs |-> IF p = 1 THEN {"installed", "layout", "port"} ELSE {}]
    /\ msg = [p \in Procs |-> NotRun]
    /\ child = [p \in Procs |-> "none"]
    /\ solr_pid = [p \in Procs |-> "None"]
    /\ handlers = [p \in Procs |-> {}]
    /\ portOpen = [p \in Procs |-> FALSE]
    /\ probes = [p \in Procs |-> 0]
    /\ sig = [p \in Procs |-> "none"]
    /\ kills = [p \in Procs |-> 0]
    /\ InitOps

NextGuard == OldShardsGuard(1) \/ Popen(1)

SpecGuard == InitGuard /\ [][NextGuard]_vars

\* process 1 is at position loc, the other processes have not started
Only(loc) == [p \in Procs |-> IF p = 1 THEN loc ELSE "start"]

\* Every process p is at position at[p] of an operation; the processes that
\* have started have established the preconditions in `established`.
InitAt(at, established) ==
    /\ lockOwner = 0
    /\ pc = at
    /\ caller = [p \in Procs |-> "none"]
    /\ ret = [p \in Procs |-> NoReturn]
    /\ err = [p \in Procs |-> "none"]
    /\ via = [p \in Procs |-> "none"]
    /\ entry = [p \in Procs |-> [called |-> FALSE, locked |-> FALSE, installed |-> FALSE]]
    /\ downloaded = [p \in Procs |-> FALSE]
    /\ passed = [p \in Procs |-> IF at[p] = "start" THEN {} ELSE established]
    /\ msg = [p \in Procs |-> NotRun]
    /\ child = [p \in Procs |-> "none"]
    /\ solr_pid = [p \in Procs |-> "None"]
    /\ handlers = [p \in Procs |-> {}]
    /\ portOpen = [p \in Procs |-> FALSE]
    /\ probes = [p \in Procs |-> 0]
    /\ sig = [p \in Procs |-> "none"]
    /\ kills = [p \in Procs |-> 0]

Installed == [installing |-> FALSE, installed |-> TRUE, readme |-> TRUE]

\* the files under __solr_path(dist_directory=dist_directory,
\* solr_version=solr_version), where the operation looks for the distribution
SolrPath ==
    IF asked.default THEN [installed |-> dist.installed, readme |-> dist.readme]
                     ELSE [installed |-> asked.installed, readme |-> asked.readme]

\* A start or an update of the configuration on ZooKeeper that is called
\* with the default distribution or with another one, up to the statement
\* that follows the installation.
InitDistribution ==
    /\ \E o \in {RunOp, Op("sync", 1, 1, StandalonePort, FALSE, {})} :
          /\ InitAt(Only(IF o.name = "sync" THEN "sync_start" ELSE "start"), {})
          /\ op = o
    /\ asked \in {DefaultDistribution} \cup OtherDistributions
    /\ dist \in [installing : BOOLEAN, installed : BOOLEAN, readme : BOOLEAN]
    /\ cwd = EmptyCwd
    /\ home = GoodHome
    /\ srcs = AllSources \cup ZkLog4jPaths
    /\ inst = EmptyInst
    /\ openPorts = {}
    /\ sent = << >>
    /\ listing = NotListed
    /\ cur = 0
    /\ todo = << >>
    /\ out = NoOut

NextDistribution == InstallStep(1) \/ UpdateZookeeperSolrConfiguration(1)

SpecDistribution == InitDistribution /\ [][NextDistribution]_vars

\* The shard functions, for shard numbers below and above 1.
InitShard ==
    /\ InitAt(Only("shard_functions"), {})
    /\ dist = Installed
    /\ cwd \in {EmptyCwd, [EmptyCwd EXCEPT !.baseDataDir = FALSE]}
    /\ \E n \in ShardArgs, sp \in StartingPorts :
          InitEnv([Op("shard", n, 1, StandalonePort, FALSE, {}) EXCEPT !.starting_port = sp],
                  {}, EmptyInst)
    /\ home = GoodHome
    /\ srcs = AllSources \cup ZkLog4jPaths

NextShard == CallShardName(1) \/ CallShardPort(1) \/ CallShardDataDir(1)

SpecShard == InitShard /\ [][NextShard]_vars

\* __collections() for every content of the collections directory.
InitCollections ==
    /\ InitAt(Only("collections"), {})
    /\ dist = Installed
    /\ cwd = EmptyCwd
    /\ InitEnv(Op("collections", 1, 1, StandalonePort, FALSE, {}), {}, EmptyInst)
    /\ home \in Homes
    /\ srcs = AllSources \cup ZkLog4jPaths

NextCollections == CallCollections(1)

SpecCollections == InitCollections /\ [][NextCollections]_vars

\* Starts of the same instance, one after the other, from the layout on:
\* every process is an invocation of __run_solr that has verified the
\* installation.
InitLayout ==
    /\ InitAt([p \in Procs |-> "solr_home"], {"installed"})
    /\ dist = Installed
    /\ cwd = EmptyCwd
    /\ \E i \in Insts : InitEnv(RunOp, {}, i)
    /\ home \in LayoutHomes
    /\ srcs \in {x \cup ZkLog4jPaths : x \in SourceSets}

NextLayout ==
    \E p \in Procs : BuildLayout(p) \/ TcpPortCheck(p) \/ OldShardsGuard(p) \/ Popen(p)

SpecLayout == InitLayout /\ [][NextLayout]_vars

\* The administrative operations: reload of one shard, reload of all
\* shards, optimize and the update of the configuration on ZooKeeper.
AdminOps ==
    {Op("reload", n, 1, StandalonePort, FALSE, {}) : n \in 0..2}
    \cup {Op("reload_all", 1, m, StandalonePort, FALSE, {}) : m \in 0..MaxShardCount}
    \cup {Op("optimize", 1, 1, StandalonePort, FALSE, {})}
    \cup {Op("optimize", 1, 1, StandalonePort, TRUE, names) :
             names \in {{<<LetterB>>, <<LetterA>>}, {<<LetterA, LetterB>>}}}
    \cup {Op("sync", 1, 1, StandalonePort, FALSE, {})}

AdminPorts ==
    {ShardPort(k, ClusterStartingPort).num : k \in 1..MaxShardCount} \cup {StandalonePort}

\* homes of the administrative operations
AdminHomes ==
    {h \in Homes :
        /\ h.entries[<<Dot, LetterA>>] = "absent"
        /\ h.dir => h.entries[<<Underscore, LetterA>>] = "noconf"
        /\ h.entries[<<LetterA>>] \in {"absent", "file", "conf"}
        /\ h.entries[<<LetterA, LetterB>>] \in {"absent", "conf"}
        /\ h.entries[<<LetterB>>] \in {"absent", "noconf", "conf"}}

InitAdmin ==
    /\ \E o \in AdminOps :
          /\ InitAt(Only(CASE o.name = "reload" -> "reload"
                           [] o.name = "reload_all" -> "reload_all"
                           [] o.name = "optimize" -> "optimize"
                           [] o.name = "sync" -> "sync_start"), {})
          /\ \E ports \in SUBSET AdminPorts : InitEnv(o, ports, EmptyInst)
    /\ cwd = EmptyCwd
    /\ home \in AdminHomes
    /\ dist \in [installing : BOOLEAN, installed : BOOLEAN, readme : BOOLEAN]
    /\ srcs \in {AllSources \cup z : z \in SUBSET ZkLog4jPaths}
    /\ op.name = "sync" => openPorts = {}
    /\ op.name # "sync" => dist = Installed /\ srcs = AllSources \cup ZkLog4jPaths

NextAdmin ==
    \/ ReloadAllSolrShards(1)
    \/ ReloadSolrShard(1)
    \/ ReloadRequest(1)
    \/ ReloadReturn(1)
    \/ OptimizeSolrIndex(1)
    \/ OptimizeRequest(1)
    \/ OptimizeReturn(1)
    \/ UpdateZookeeperSolrConfiguration(1)
    \/ InstallBody(1)
    \/ ZkPortCheck(1)
    \/ Upconfig(1)
    \/ Linkconfig(1)
    \/ SyncReturn(1)

SpecAdmin == InitAdmin /\ [][NextAdmin]_vars


(***************************************************************************)
(* Properties.                                                             *)
(***************************************************************************)
\* exceptions raised inside __install_solr
InstallErrors ==
    {"AlreadyInstalled", "LockTimeout", "DownloadError", "ExtractError",
     "InstalledFileError", "LockFileMissing", "NotInstalled", "OSError"}

\* C1: in every reachable state at most one process is between acquiring the
\* 'installing' lock file and releasing it, and that process is the one that
\* created the lock file.
C1_InstallMutualExclusion ==
    /\ Cardinality({p \in Procs : Locked(p)}) <= 1
    /\ \A p \in Procs : Locked(p) => dist.installing /\ lockOwner = p

\* one process downloads under the lock while another waits for the lock
C1_Witness ==
    \E p, q \in Procs : p # q /\ pc[p] = "download" /\ pc[q] = "lock"

\* C2: a process B that enters __install_solr while another process holds the
\* lock either returns without having downloaded anything or fails with the
\* lock timeout, and B is never past the lock while the other holds it.
C2_WaiterBlocksOrTimesOut ==
    \A b \in Procs : entry[b].locked =>
        /\ via[b] # "none" => via[b] = "recheck" /\ ~downloaded[b]
        /\ err[b] \in InstallErrors => err[b] = "LockTimeout"
        /\ Locked(b) => lockOwner = b

\* C3: a process that enters __install_solr when the distribution is installed
\* gets no error from the installation and downloads nothing.
C3_InstalledAtEntryIsNoOp ==
    \A p \in Procs : entry[p].installed =>
        err[p] \notin InstallErrors /\ ~downloaded[p]

\* C4: after __install_solr returned because the re-check under the lock found
\* the distribution installed, the 'installing' file of that process is gone.
C4_RecheckReturnReleasesLock ==
    \A p \in Procs : via[p] = "recheck" => ~(dist.installing /\ lockOwner = p)

\* C5: after a failed download, extraction, write of the 'installed' file or
\* final verification, the failing process does not hold the 'installing' file.
C5_FailureReleasesLock ==
    \A p \in Procs :
        err[p] \in {"DownloadError", "ExtractError", "InstalledFileError", "NotInstalled"}
            => ~(dist.installing /\ lockOwner = p)

\* C6: __solr_is_installed returns True only when the 'installed' file and
\* README.txt are both present; with the 'installed' file present and
\* README.txt absent it deletes the 'installed' file and returns False; with
\* the 'installed' file absent it returns False and changes nothing.
C6_InstalledCheckContract ==
    [][\A p \in Procs :
          /\ (ret'[p] # ret[p] /\ ret'[p].value)
                => dist.installed /\ dist.readme /\ dist' = dist
          /\ (pc[p] = "isfile_installed" /\ pc'[p] # pc[p] /\ ~dist.installed)
                => ret'[p] = Returned(FALSE, FALSE)
                   /\ dist' = dist /\ err'[p] # "OSError"
          /\ (pc[p] = "isfile_readme" /\ pc'[p] # pc[p])
                => dist.installed /\ (pc'[p] = "unlink_installed" <=> ~dist.readme)
          /\ (pc[p] = "unlink_installed" /\ pc'[p] # pc[p])
                => /\ dist.installed /\ ~dist.readme
                   /\ dist' = [dist EXCEPT !.installed = FALSE]
                   /\ ret'[p] = Returned(FALSE, TRUE)
                   /\ err'[p] # "OSError"]_vars

\* the check has deleted a stale 'installed' file and returned False
C6_Witness ==
    /\ ret[1] = Returned(FALSE, TRUE)
    /\ ~dist.installed /\ ~dist.readme
    /\ pc[1] = "install_solr"

\* C7: when a termination signal reached the parent after the spawn, the kill
\* of the child has been initiated by the time the parent has exited.
C7_ChildNeverOutlivesParent ==
    \A p \in Procs :
        (pc[p] = "exited" /\ sig[p] # "none" /\ child[p] # "none") => kills[p] >= 1

\* C8: a child is spawned, and its PID recorded, only after the installation
\* was verified, the layout inputs were found, the port was found closed and
\* the legacy guard passed; a port-in-use failure spawns nothing.
C8_SpawnOnlyAfterPreconditions ==
    \A p \in Procs :
        /\ (child[p] # "none" \/ solr_pid[p] # "None" \/ pc[p] = "popen")
              => passed[p] = Preconditions
        /\ err[p] = "PortInUse"
              => child[p] = "none" /\ solr_pid[p] = "None" /\ "port" \notin passed[p]

\* the child was spawned and its PID recorded after an installation made by
\* this process
C8_Witness ==
    /\ child[1] = "running" /\ solr_pid[1] = "pid"
    /\ via[1] = "final"
    /\ passed[1] = Preconditions

\* C9: with no legacy shard directory the guard returns silently; with at
\* least one it raises on every path, so that no child is spawned; and the
\* guard leaves the working directory and the distribution as they are.
C9_GuardFailClosedReadOnly ==
    /\ [](\A p \in Procs :
            /\ (msg[p].outcome # "none" /\ cwd.oldShards = {})
                  => msg[p].outcome = "return" /\ err[p] = "none"
            /\ (msg[p].outcome # "none" /\ cwd.oldShards # {})
                  => /\ msg[p].outcome = "raise"
                     /\ err[p] # "none"
                     /\ pc[p] = "exited"
                     /\ child[p] = "none")
    /\ [][(msg' # msg) => UNCHANGED <<cwd, dist, lockOwner>>]_vars

\* the guard has raised in a working directory with a legacy shard directory
C9_Witness ==
    /\ cwd.oldShards # {}
    /\ msg[1].outcome = "raise"
    /\ pc[1] = "exited"

\* the highest shard number among the legacy shard directories
HighestOldShard == SetMax({ParseInt(s) : s \in {t \in cwd.oldShards : IsDigits(t)}})

\* the collections found in the legacy shard directories mediacloud-shard-<n>
OldCollections ==
    {q \in Pairs : FormatInt(q[1]) \in cwd.oldShards /\ q[2] \in cwd.colls[q[1]]}

\* msg[p] is the migration script for N shards: N recreation commands for
\* shards 1..N with shard count N, one mv line per legacy collection, N
\* cleanup commands
IsMigrationScript(p, N) ==
    /\ msg[p].outcome = "raise"
    /\ msg[p].error = "OldShards"
    /\ msg[p].script.recreate = [n \in 1..N |-> [shard_num |-> n, shard_count |-> N]]
    /\ Len(msg[p].script.mv) = Cardinality(OldCollections)
    /\ {<<msg[p].script.mv[i].shard, msg[p].script.mv[i].coll>> :
            i \in 1..Len(msg[p].script.mv)} = OldCollections
    /\ msg[p].script.rm = [n \in 1..N |-> n]

\* every legacy shard directory is named by its shard number (1 or more) and
\* holds at least one collection, each with its data directory and without
\* a destination; the base data directory exists
SoundOldShards ==
    /\ cwd.baseDataDir
    /\ \A s \in cwd.oldShards :
          /\ IsDigits(s) /\ ParseInt(s) \in ShardNums /\ FormatInt(ParseInt(s)) = s
          /\ cwd.colls[ParseInt(s)] # {}
    /\ cwd.noData = {} /\ cwd.dstExists = {}

\* C10, as claimed: for any non-empty set of (sound) legacy shard directories
\* with highest shard number N, contiguous or not, the guard raises the
\* migration script for N shards.
C10_ScriptForAnyShardSet ==
    \A p \in Procs :
        (msg[p].outcome # "none" /\ cwd.oldShards # {} /\ SoundOldShards)
            => IsMigrationScript(p, HighestOldShard)

\* every shard 1..N has its directory mediacloud-shard-<n> with at least one
\* collection, every collection there has its data directory, the base data
\* directory exists and no destination data directory exists
Migratable ==
    /\ \A s \in cwd.oldShards : IsDigits(s)
    /\ \A n \in 1..HighestOldShard :
          /\ FormatInt(n) \in cwd.oldShards
          /\ n \in ShardNums
          /\ cwd.colls[n] # {}
          /\ \A coll \in cwd.colls[n] :
                <<n, coll>> \notin cwd.noData /\ <<n, coll>> \notin cwd.dstExists
    /\ HighestOldShard >= 1 => cwd.baseDataDir

\* C10, amended: the guard raises the migration script for N shards exactly
\* when the legacy layout is migratable; for any other non-empty set of legacy
\* shard directories it raises another error, without a script.
C10_ScriptForMigratableShards ==
    \A p \in Procs :
        (msg[p].outcome # "none" /\ cwd.oldShards # {}) =>
            IF Migratable
            THEN IsMigrationScript(p, HighestOldShard)
            ELSE /\ msg[p].outcome = "raise"
                 /\ msg[p].error # "OldShards"
                 /\ msg[p].script = NoScript

\* legacy shards 1, 2, 3 give three recreation commands and one mv line per
\* collection
C10_Witness ==
    /\ cwd.oldShards = {<<1>>, <<2>>, <<3>>}
    /\ Len(msg[1].script.recreate) = 3
    /\ Len(msg[1].script.mv) = 4
    /\ Len(msg[1].script.rm) = 3

\* C11: for every shard number n >= 1 and every starting port, __shard_port
\* returns starting_port + n - 1, so that no other shard number gets that
\* port; for n < 1 each of __shard_port, __shard_name and __shard_data_dir
\* raises the invalid-shard error and returns nothing.
C11_ShardPortFormula ==
    /\ (op.shard_num >= 1 /\ out.port.outcome # "none") =>
          /\ out.port = Value(op.starting_port + op.shard_num - 1, NoName)
          /\ \A m \in 1..MaxShardNum :
                m # op.shard_num => ShardPort(m, op.starting_port).num # out.port.num
    /\ op.shard_num < 1 =>
          \A f \in {"name", "port", "data_dir"} :
             out[f].outcome # "none" => out[f] = Fails("InvalidShard")

\* shard 11 of a cluster that starts at port 7980 listens on port 7990
C11_Witness ==
    /\ op.shard_num = 11 /\ op.starting_port = ClusterStartingPort
    /\ out.port.outcome = "return" /\ out.port.num = 7990

\* the other shard numbers whose name is the one returned for op.shard_num
SameName == {m \in 1..MaxShardNum : m # op.shard_num /\ ShardName(m) = out.name}

\* C12, as claimed: __shard_name is injective over the positive integers, and
\* the name of shard n is accepted by the matcher of the legacy guard and
\* parses back to n.
C12_NameAcceptedByLegacyMatcher ==
    out.name.outcome = "return" =>
        /\ SameName = {}
        /\ LegacyMatch(out.name.name)
        /\ ParseInt(out.name.name.rest) = op.shard_num

\* C12, amended: __shard_name is injective over the positive integers; the
\* name of shard n is "mediacloud-cluster-shard-" followed by the decimal
\* digits of n, which parse back to n; the glob and the pattern of the legacy
\* guard ("mediacloud-shard-<digits>") do not accept it.
C12_NameInjectiveAndNotLegacy ==
    out.name.outcome = "return" =>
        /\ SameName = {}
        /\ out.name.name.prefix = "mediacloud-cluster-shard-"
        /\ IsDigits(out.name.name.rest)
        /\ ParseInt(out.name.name.rest) = op.shard_num
        /\ FormatInt(op.shard_num) = out.name.name.rest
        /\ ~LegacyGlob(out.name.name)
        /\ ~LegacyMatch(out.name.name)

\* the name of shard 11 ends in the digits 1, 1
C12_Witness ==
    /\ op.shard_num = 11
    /\ out.name.outcome = "return"
    /\ out.name.name.rest = <<1, 1>>

\* C13: __collections returns exactly the directories of the collections
\* path whose name starts neither with '_' nor with '.', each mapped to its
\* path, if each of them has a 'conf' subdirectory; otherwise it raises the
\* configuration error that names one of those lacking 'conf'.  Excluded
\* names and files never make it fail.
C13_ListCollections ==
    (listing.outcome # "none" /\ home.dir) =>
        LET wanted == {n \in CollectionNames :
                          /\ home.entries[n] \in {"noconf", "conf"}
                          /\ n[1] \notin {Underscore, Dot}}
            lacking == {n \in wanted : home.entries[n] # "conf"}
        IN  IF lacking = {}
            THEN /\ listing.outcome = "return"
                 /\ DOMAIN listing.map = wanted
                 /\ \A n \in wanted : listing.map[n] = <<"collections", n>>
            ELSE /\ listing.outcome = "raise"
                 /\ listing.error = "ConfigurationError"
                 /\ listing.naming \in lacking

\* "_a" and ".a" are directories without 'conf', "ab" is a file: the listing
\* returns the collections "a" and "b"
C13_Witness ==
    /\ home.entries[<<Underscore, LetterA>>] = "noconf"
    /\ home.entries[<<Dot, LetterA>>] = "noconf"
    /\ home.entries[<<LetterA, LetterB>>] = "file"
    /\ listing.outcome = "return"
    /\ DOMAIN listing.map = {<<LetterA>>, <<LetterB>>}

\* C14: the step in which an operation fails because a discovered collection
\* lacks 'conf' leaves the instance directory as it was; nothing has been
\* sent or run by then and no child exists.
C14_FailsBeforeAnyMutation ==
    [][\A p \in Procs :
          (err[p] = "none" /\ err'[p] = "ConfigurationError")
              => inst' = inst /\ sent' = << >> /\ child'[p] = "none"]_vars

\* C15: when an earlier start has built the layout, the next build of the
\* same instance directory succeeds and leaves every symlink and every
\* descriptor file as it is.
C15_LayoutIdempotent ==
    [][\A p, q \in Procs :
          (p # q /\ "layout" \in passed[q] /\ pc[p] = "solr_home" /\ pc'[p] # "solr_home")
              => /\ inst' = inst
                 /\ err'[p] = "none"
                 /\ "layout" \in passed'[p]]_vars

\* two starts have built the layout of collections "a" and "b"
C15_Witness ==
    /\ \A p \in {1, 2} : "layout" \in passed[p]
    /\ \A n \in {<<LetterA>>, <<LetterB>>} :
          inst.conf[n] = Symlink(ConfTarget(n)) /\ inst.props[n] = "descriptor"
    /\ \A item \in Range(LibraryItems) : inst.items[item] = Symlink(ItemTarget("example", item))

\* destinations of the build that are a regular file or a directory: the
\* 'conf' of a discovered collection, a configuration item, a library item
Blocking ==
    {n \in Discovered(home) : inst.conf[n].kind = "other"}
    \cup {item \in AllItems : inst.items[item].kind = "other"}

\* C16: an entry that is not a symlink is never removed or replaced; a build
\* that finds one at the destination of a 'conf' link, of a configuration item
\* or of a library item fails with a configuration error and spawns no child.
C16_NoClobberOfNonSymlink ==
    /\ [](\A p \in Procs :
            (pc[p] # "solr_home" /\ Blocking # {})
                => /\ err[p] \in LayoutErrors
                   /\ pc[p] = "exited"
                   /\ child[p] = "none" /\ solr_pid[p] = "None")
    /\ [][/\ \A n \in CollectionNames : inst.conf[n].kind = "other" => inst'.conf[n] = inst.conf[n]
          /\ \A item \in AllItems : inst.items[item].kind = "other" => inst'.items[item] = inst.items[item]]_vars

\* the build has linked the collections and the configuration items and has
\* failed at the library item 'lib', which is not a symlink
C16_Witness ==
    /\ err[1] = "NotASymlink"
    /\ inst.items["lib"] = Other
    /\ inst.items["solr.xml"].kind = "symlink"
    /\ inst.conf[<<LetterB>>].kind = "symlink"
    /\ child[1] = "none"

\* the collections an operation works on: the directories of the collections
\* path that are not excluded by their name
Wanted ==
    {n \in CollectionNames :
        home.entries[n] \in {"noconf", "conf"} /\ n[1] \notin {Underscore, Dot}}

\* the shard number that listens on a port
ShardOf(port) == port - op.starting_port + 1

\* the requests and runs of `sent` visit, for every shard in turn, the
\* collections in ascending order of their names, none of them left out
InOrder ==
    \A i \in 1..Len(sent) :
        /\ sent[i].coll \in Wanted
        /\ \A j \in 1..(i - 1) :
              \/ sent[j].port < sent[i].port
              \/ sent[j].port = sent[i].port /\ sent[j].tool = sent[i].tool
                    /\ NameLess(sent[j].coll, sent[i].coll)
              \/ sent[j].port = sent[i].port /\ sent[j].tool # sent[i].tool
                    /\ (sent[j].coll = sent[i].coll \/ NameLess(sent[j].coll, sent[i].coll))
        /\ \A n \in Wanted :
              NameLess(n, sent[i].coll) =>
                  \E j \in 1..(i - 1) :
                     sent[j].coll = n /\ sent[j].port = sent[i].port /\ sent[j].tool = sent[i].tool

\* only the last request or run of `sent` may have failed, and its failure
\* has ended the operation
StopsAtFirstFailure ==
    /\ \A i \in 1..(Len(sent) - 1) : sent[i].ok
    /\ (sent # << >> /\ ~sent[Len(sent)].ok) => err[1] # "none" /\ pc[1] = "exited"

\* the successful requests or runs of a tool made for a collection on a port
Done(tool, port, n) ==
    {i \in 1..Len(sent) : sent[i] = Effect(tool, port, n, TRUE)}

\* C17: reload_solr_shard for a shard whose port is closed raises the
\* not-running error and sends nothing; requests are sent only to an open
\* port, one per collection in ascending order of the collection names.
C17_ReloadClosedPortSendsNothing ==
    (op.name = "reload" /\ op.shard_num >= 1 /\ pc[1] # "reload") =>
        LET port == op.starting_port + op.shard_num - 1
        IN  /\ port \notin openPorts => err[1] = "NotRunning" /\ sent = << >>
            /\ \A i \in 1..Len(sent) :
                  sent[i].tool = "reload" /\ sent[i].port = port /\ port \in openPorts
            /\ InOrder
            /\ StopsAtFirstFailure
            /\ pc[1] = "done" =>
                  \A n \in Wanted : Cardinality(Done("reload", port, n)) = 1

\* the reload of shard 2, whose port is closed, has failed with nothing sent
\* although there are collections to reload
C17_Witness ==
    /\ op.name = "reload" /\ op.shard_num = 2
    /\ Cardinality(Wanted) = 3 /\ listing.outcome = "none"
    /\ openPorts = AdminPorts \ {ClusterStartingPort + 1}
    /\ err[1] = "NotRunning" /\ pc[1] = "exited"
    /\ sent = << >>

\* C18: reload_all_solr_shards reloads the shards 1, 2, ..., M in this order,
\* each shard completely before the next; when the reload of shard k fails
\* the operation fails and nothing is ever sent to a shard above k.
C18_ReloadAllInOrderStopsAtFailure ==
    (op.name = "reload_all" /\ pc[1] # "reload_all") =>
        /\ InOrder
        /\ StopsAtFirstFailure
        /\ \A i \in 1..Len(sent) :
              /\ sent[i].tool = "reload"
              /\ ShardOf(sent[i].port) \in 1..cur
              /\ sent[i].port \in openPorts
              /\ \A k \in 1..(ShardOf(sent[i].port) - 1), n \in Wanted :
                    \E j \in 1..(i - 1) :
                       sent[j] = Effect("reload", op.starting_port + k - 1, n, TRUE)
        /\ cur <= op.shard_count
        /\ op.shard_count < 1 => err[1] = "InvalidShardCount" /\ sent = << >>
        /\ err[1] # "none" => pc[1] = "exited"
        /\ (pc[1] # "reload" /\ cur >= 1 /\ op.starting_port + cur - 1 \notin openPorts)
              => err[1] = "NotRunning"
        /\ pc[1] = "done" =>
              /\ cur = op.shard_count
              /\ \A k \in 1..op.shard_count, n \in Wanted :
                    Cardinality(Done("reload", op.starting_port + k - 1, n)) = 1

\* of three shards the first was reloaded, a request to the second failed and
\* nothing was sent to the third, whose port is open
C18_Witness ==
    /\ op.name = "reload_all" /\ op.shard_count = 3
    /\ Cardinality(Wanted) = 2
    /\ {ClusterStartingPort, ClusterStartingPort + 1, ClusterStartingPort + 2} \subseteq openPorts
    /\ err[1] = "AdminRequestError" /\ pc[1] = "exited" /\ cur = 2
    /\ Len(sent) = 4
    /\ sent[1].port = ClusterStartingPort /\ sent[2].port = ClusterStartingPort
    /\ sent[4].port = ClusterStartingPort + 1 /\ ~sent[4].ok

\* what optimize_solr_index without a list of collections does against a
\* port that accepts connections (C19, both statements)
OptimizeReachable ==
    /\ \A i \in 1..Len(sent) : sent[i].tool = "optimize" /\ sent[i].port = op.port
    /\ InOrder
    /\ StopsAtFirstFailure
    /\ listing.outcome = "raise" => sent = << >> /\ err[1] = listing.error
    /\ pc[1] = "done" =>
          \A n \in Wanted : Cardinality(Done("optimize", op.port, n)) = 1

\* C19, as claimed: optimize_solr_index without a list of collections sends,
\* to a reachable port, one request per discovered collection in ascending
\* order of the names and stops at the first failure; with an unreachable
\* port it raises the not-running error and sends nothing.
C19_OptimizeNotRunningWhenUnreachable ==
    (op.name = "optimize" /\ ~op.given /\ pc[1] # "optimize") =>
        IF op.port \in openPorts
        THEN OptimizeReachable
        ELSE err[1] = "NotRunning" /\ sent = << >>

\* C19, amended: as claimed for a reachable port; with an unreachable port it
\* sends nothing and raises the not-running error if the collections could
\* be listed, else the error of the listing, which comes first.
C19_OptimizeListsBeforePortCheck ==
    (op.name = "optimize" /\ ~op.given /\ pc[1] # "optimize") =>
        IF op.port \in openPorts
        THEN OptimizeReachable
        ELSE /\ sent = << >>
             /\ pc[1] = "exited"
             /\ err[1] = IF listing.outcome = "raise" THEN listing.error ELSE "NotRunning"

\* optimize has sent one request for each of "a", "ab" and "b", in this order
C19_Witness ==
    /\ op.name = "optimize" /\ ~op.given /\ pc[1] = "done"
    /\ [i \in 1..Len(sent) |-> sent[i].coll] = <<<<LetterA>>, <<LetterA, LetterB>>, <<LetterB>>>>
    /\ \A i \in 1..Len(sent) : sent[i].ok /\ sent[i].port = StandalonePort

\* C20: the update of the configuration on ZooKeeper visits the collections
\* in ascending order of their names and runs zkcli twice for each, upconfig
\* and then linkconfig, before it goes on to the next collection; when a run
\* fails or ZooKeeper is unreachable, the operation fails and no further run
\* is made.
C20_SyncUploadThenLinkInOrder ==
    (op.name = "sync") =>
        /\ InOrder
        /\ StopsAtFirstFailure
        /\ \A i \in 1..Len(sent) :
              /\ sent[i].tool = IF i % 2 = 1 THEN "upconfig" ELSE "linkconfig"
              /\ i % 2 = 0 => sent[i].coll = sent[i - 1].coll
              /\ (i % 2 = 1 /\ i > 1) => NameLess(sent[i - 1].coll, sent[i].coll)
        /\ err[1] # "none" => pc[1] = "exited"
        /\ err[1] \in {"ZooKeeperDown", "SyncError", "MissingSource"} =>
              \A i \in 1..Len(sent) : sent[i].ok \/ (i = Len(sent) /\ err[1] = "SyncError")
        /\ pc[1] = "done" =>
              /\ Len(sent) = 2 * Cardinality(Wanted)
              /\ \A n \in Wanted :
                    /\ Cardinality(Done("upconfig", 0, n)) = 1
                    /\ Cardinality(Done("linkconfig", 0, n)) = 1

\* the configuration of "a" was uploaded and linked, the upload of "b" failed
C20_Witness ==
    /\ op.name = "sync" /\ Wanted = {<<LetterA>>, <<LetterB>>}
    /\ err[1] = "SyncError" /\ pc[1] = "exited"
    /\ sent = <<Effect("upconfig", 0, <<LetterA>>, TRUE),
                Effect("linkconfig", 0, <<LetterA>>, TRUE),
                Effect("upconfig", 0, <<LetterB>>, FALSE)>>

C22_RunningLeftOnlyByTermination ==
    [][\A p \in Procs :
          /\ (pc[p] = "running" /\ pc'[p] # "running") =>
                /\ sig[p] = "none" /\ sig'[p] # "none"
                /\ pc'[p] \in {"sigterm_handler", "atexit"}
          /\ (pc[p] = "sigterm_handler" /\ pc'[p] # pc[p]) =>
                pc'[p] \in {"atexit", "exited"}
          /\ (pc[p] = "atexit" /\ pc'[p] # pc[p]) => pc'[p] = "exited"
          /\ pc[p] = "exited" => pc'[p] = "exited"]_vars

\* the child has ended by itself and the start is still "running"
C22_Witness ==
    pc[1] = "running" /\ child[1] = "dead" /\ sig[1] = "none"

\* C26: __kill_solr_process hands the recorded PID to
\* gracefully_kill_child_process at most once in the life of the process.
C26_KillForwardedAtMostOnce ==
    \A p \in Procs : kills[p] <= 1

\* the steps of __install_solr under the lock, in the order of the code
InstallOrder == <<"download", "extract", "extract_war", "create_installed", "unlock">>

PlaceIn(loc) == CHOOSE i \in 1..Len(InstallOrder) : InstallOrder[i] = loc

\* the positions of __solr_is_installed
Checking(p) == pc[p] \in {"isfile_installed", "isfile_readme", "unlink_installed"}

\* process p has created the 'installed' file (line 103)
Wrote(p) == pc[p] = "unlock" \/ caller[p] = "install_final"

\* C24: an installation downloads, extracts, extracts the nested archive,
\* writes the 'installed' file and releases the lock in this order, all of it
\* under the lock, and makes its final check after the release; whenever the
\* lock is free and an installer has written the 'installed' file that
\* exists, the extraction was completed; and a final check that returns
\* False ends the installation with the "not installed" error.
C24_InstallStepsInOrder ==
    /\ [](\A p \in Procs :
            /\ pc[p] \in Range(InstallOrder) => lockOwner = p /\ dist.installing
            /\ pc[p] \in {"extract", "extract_war", "create_installed"} => downloaded[p]
            /\ pc[p] \in {"extract_war", "create_installed"} => dist.readme
            /\ Wrote(p) => downloaded[p] /\ dist.readme
            /\ caller[p] = "install_final" => lockOwner # p
            /\ (Wrote(p) /\ ~dist.installing /\ dist.installed) => dist.readme
            /\ err[p] = "NotInstalled" =>
                  caller[p] = "install_final" /\ ~ret[p].value /\ pc[p] = "exited"
            /\ (caller[p] = "install_final" /\ ~Checking(p) /\ err[p] # "OSError") =>
                  IF ret[p].value THEN via[p] = "final" /\ err[p] = "none"
                                  ELSE err[p] = "NotInstalled")
    /\ [][\A p \in Procs :
            /\ (pc[p] \in Range(InstallOrder) /\ pc'[p] \in Range(InstallOrder)
                  /\ pc'[p] # pc[p]) => PlaceIn(pc'[p]) = PlaceIn(pc[p]) + 1
            /\ (pc[p] \notin Range(InstallOrder) /\ pc'[p] \in Range(InstallOrder)) =>
                  /\ pc'[p] = "download"
                  /\ Checking(p) /\ caller[p] = "install_locked"
            /\ (caller[p] # "install_final" /\ caller'[p] = "install_final") =>
                  /\ pc[p] = "unlock" /\ pc'[p] = "isfile_installed"
                  /\ dist.installing /\ ~dist'.installing]_vars

\* an installation that downloaded and extracted has passed its final check
C24_Witness ==
    /\ via[1] = "final" /\ downloaded[1] /\ err[1] = "none"
    /\ dist = [installing |-> FALSE, installed |-> TRUE, readme |-> TRUE]

\* process q holds the lock and has not yet written the 'installed' file
MidInstallation(q) == pc[q] \in {"download", "extract", "extract_war", "create_installed"}

\* the installed check of no process raises because the file was gone
C25_UnlinkNeverFails ==
    \A p \in Procs : err[p] # "OSError"

\* no installed check returns True while another process is between the lock
\* and the writing of the 'installed' file
C25_NotInstalledWhileExtracting ==
    [][\A p \in Procs :
          (pc[p] = "isfile_readme" /\ pc'[p] \notin {"isfile_readme", "unlink_installed"}
              /\ ret'[p].value) =>
             \A q \in Procs \ {p} : ~MidInstallation(q)]_vars

\* C25: with several processes at work, the installed check returns True for
\* no process while another one is between the lock and the writing of the
\* 'installed' file, and the check of no process fails because another
\* process removed the stale 'installed' file first.
C25_InstalledCheckSafeUnderConcurrency ==
    C25_NotInstalledWhileExtracting /\ []C25_UnlinkNeverFails

\* process c was killed while it held the lock
CrashedWithLock(c) == pc[c] = "killed" /\ lockOwner = c /\ dist.installing

\* C27: when a process was killed while it held the install lock, a call of
\* __install_solr that another process makes afterwards comes to an end other
\* than the lock timeout: the installation is verified, or it fails for a
\* reason of its own.
C27_InstallRecoversAfterCrash ==
    \A c \in Procs : \A q \in Procs \ {c} :
        (CrashedWithLock(c) /\ pc[q] = "install_solr")
            ~> (via[q] # "none" \/ err[q] \notin {"none", "LockTimeout"} \/ pc[q] = "killed")

\* C23: an operation that is called with a distribution directory and a
\* version goes on past the installation only when the distribution of that
\* pair is installed, and it installs into no other distribution than that
\* of the pair it was called with.
C23_InstallsTheDistributionItUses ==
    /\ [](\A p \in Procs :
            "installed" \in passed[p] => SolrPath.installed /\ SolrPath.readme)
    /\ [][dist' # dist => asked.default]_vars

=============================================================================
